---- MODULE Spec2Model ----
(***************************************************************************)
(* Page::parse of src/lib.rs: the Gemtext line classifier.                 *)
(*                                                                         *)
(* A Rust &str is modelled as the sequence of its chars; every char knows  *)
(* its UTF-8 width, so that the byte-indexed slices of the source          *)
(* (line[..3], line[level..], line[2..]) fault exactly where Rust does:    *)
(* past the end of the string or inside a multi-byte char.                 *)
(* The while-let loop of parse is taken one iteration at a time; pc is     *)
(* the loop the next raw_lines.next() call belongs to.                     *)
(* Line endings are "\n"; no input holds a carriage return.                *)
(***************************************************************************)
EXTENDS Naturals, Sequences, FiniteSets

VARIABLES
    text,       \* the argument of parse (chars, "\n" included)
    raw_lines,  \* the lines the iterator text.lines() has not yielded yet
    line,       \* the line bound by the outer `while let` (<<>> before the first)
    lines,      \* the Vec<Line> being built
    alt,        \* the local alt of the preformatted branch
    content,    \* the local content of the preformatted branch
    pc          \* "loop" | "pre" | "done" | "panicked"

vars == <<text, raw_lines, line, lines, alt, content, pc>>

----------------------------------------------------------------------------
(* Chars.  TICK is the backtick, EACUTE a char of two UTF-8 bytes (U+00E9). *)

TICK == "tick"
EACUTE == "U+00E9"
SP == " "
TAB == "\t"
NL == "\n"

\* Upper bounds of the inputs parse is run on.
MaxLineLen == 4
MaxLines == 4

\* The UTF-8 width of a char.
Utf8Len(ch) == IF ch = EACUTE THEN 2 ELSE 1

RECURSIVE ByteLen(_)
\* str::len, in bytes.
ByteLen(s) == IF s = <<>> THEN 0 ELSE Utf8Len(Head(s)) + ByteLen(Tail(s))

\* char::is_whitespace (and the White_Space test of trim) on the model's chars.
IsWhitespace(ch) == ch \in {SP, TAB, NL}

\* str::starts_with.
StartsWith(s, p) == Len(s) >= Len(p) /\ SubSeq(s, 1, Len(p)) = p

\* Whether the byte index n of s is in bounds and on a char boundary: what
\* every slice s[..n] and s[n..] asserts.
IsCharBoundary(s, n) == \E k \in 0..Len(s) : ByteLen(SubSeq(s, 1, k)) = n

\* The number of chars before the byte index n (n a char boundary of s).
CharsBefore(s, n) == CHOOSE k \in 0..Len(s) : ByteLen(SubSeq(s, 1, k)) = n

\* s[n..]
SliceFrom(s, n) == SubSeq(s, CharsBefore(s, n) + 1, Len(s))

\* s[..n]
SliceTo(s, n) == SubSeq(s, 1, CharsBefore(s, n))

RECURSIVE TrimStart(_)
\* str::trim_start
TrimStart(s) ==
    IF s # <<>> /\ IsWhitespace(Head(s)) THEN TrimStart(Tail(s)) ELSE s

RECURSIVE TrimEnd(_)
\* str::trim_end
TrimEnd(s) ==
    IF s # <<>> /\ IsWhitespace(s[Len(s)])
    THEN TrimEnd(SubSeq(s, 1, Len(s) - 1))
    ELSE s

\* str::trim
Trim(s) == TrimEnd(TrimStart(s))

RECURSIVE Lines(_)
\* str::lines: the pieces between "\n", a final empty piece dropped.
Lines(t) ==
    IF t = <<>> THEN <<>>
    ELSE IF \E i \in 1..Len(t) : t[i] = NL
         THEN LET i == CHOOSE i \in 1..Len(t) :
                           t[i] = NL /\ \A j \in 1..(i - 1) : t[j] # NL
              IN  <<SubSeq(t, 1, i - 1)>> \o Lines(SubSeq(t, i + 1, Len(t)))
         ELSE <<t>>

\* Option<String>
None == <<>>
Some(s) == <<s>>

\* The variants of Line.
Text(s) == [kind |-> "Text", text |-> s]
Link(u, n) == [kind |-> "Link", url |-> u, name |-> n]
Pre(a, c) == [kind |-> "Pre", alt |-> a, content |-> c]
Heading(l, c) == [kind |-> "Heading", level |-> l, content |-> c]
ListItem(s) == [kind |-> "ListItem", text |-> s]
Quote(s) == [kind |-> "Quote", text |-> s]

\* The prefixes parse tests.
LinkMark == <<"=", ">">>
HeadingMark == <<"#">>
ListMark == <<"*", SP>>
QuoteMark == <<">">>
Fence == <<TICK, TICK, TICK>>

\* The width of the window the heading branch inspects.
HeadingWindow == 3

----------------------------------------------------------------------------
(* The branches of the loop body, as functions of the line.                *)

\* str::split_once(char::is_whitespace): the index of the first whitespace
\* char of s, 0 when there is none.
SplitAt(s) ==
    IF \E i \in 1..Len(s) : IsWhitespace(s[i])
    THEN CHOOSE i \in 1..Len(s) :
             IsWhitespace(s[i]) /\ \A j \in 1..(i - 1) : ~IsWhitespace(s[j])
    ELSE 0

\* LinkOf with a name that trims to nothing taken for no name.
LinkOfDropsEmptyName(l) ==
    LET trailing == TrimStart(SliceFrom(l, 2))
        i == SplitAt(trailing)
        name == Trim(SubSeq(trailing, i + 1, Len(trailing)))
    IN  IF i # 0 /\ name # <<>>
        THEN Link(SubSeq(trailing, 1, i - 1), Some(name))
        ELSE Link(Trim(trailing), None)

\* The link branch.
LinkOf(l) ==
    LET trailing == TrimStart(SliceFrom(l, 2))
        i == SplitAt(trailing)
    IN  IF i # 0
        THEN Link(SubSeq(trailing, 1, i - 1),
                  Some(Trim(SubSeq(trailing, i + 1, Len(trailing)))))
        ELSE Link(Trim(trailing), None)

\* The level of the heading branch: the '#' among the first 3 bytes.
HeadingLevel(l) ==
    LET w == SliceTo(l, HeadingWindow)
    IN  Cardinality({i \in 1..Len(w) : w[i] = "#"})

\* Whether the heading branch faults on l: one of its two slices is out of
\* bounds or off a char boundary.
HeadingFaults(l) ==
    IF IsCharBoundary(l, HeadingWindow)
    THEN ~IsCharBoundary(l, HeadingLevel(l))
    ELSE TRUE

\* The heading branch.
HeadingOf(l) ==
    LET level == HeadingLevel(l)
    IN  Heading(level, Trim(SliceFrom(l, level)))

\* The list item branch.
ListItemOf(l) == ListItem(Trim(SliceFrom(l, 2)))

\* QuoteOf without the trim.
QuoteOfUntrimmed(l) == Quote(SliceFrom(l, 1))

\* The quote branch.
QuoteOf(l) == Quote(Trim(SliceFrom(l, 1)))

\* The alt of an opening fence.
AltOf(l) ==
    LET trailing == Trim(SliceFrom(l, 3))
    IN  IF trailing = <<>> THEN None ELSE Some(trailing)

\* The fall-through branch.
TextOf(l) == Text(Trim(l))

\* IsListItem with the space of the marker forgotten.
IsListItemNoSpace(l) ==
    /\ ~StartsWith(l, LinkMark)
    /\ ~StartsWith(l, HeadingMark)
    /\ StartsWith(l, <<"*">>)
    /\ Len(l) >= 2

\* ClosesPre that takes only a bare fence for the end of a block.
ClosesPreBareFence(l) == l = Fence

\* The prefix tests, in the order of the source.
IsLink(l) == StartsWith(l, LinkMark)
IsHeading(l) == ~IsLink(l) /\ StartsWith(l, HeadingMark)
IsListItem(l) == ~IsLink(l) /\ ~IsHeading(l) /\ StartsWith(l, ListMark)
IsQuote(l) ==
    ~IsLink(l) /\ ~IsHeading(l) /\ ~IsListItem(l) /\ StartsWith(l, QuoteMark)
IsPre(l) ==
    /\ ~IsLink(l) /\ ~IsHeading(l) /\ ~IsListItem(l) /\ ~IsQuote(l)
    /\ StartsWith(l, Fence)
IsText(l) ==
    ~IsLink(l) /\ ~IsHeading(l) /\ ~IsListItem(l) /\ ~IsQuote(l) /\ ~IsPre(l)

\* The test that ends the inner loop.
ClosesPre(l) == StartsWith(l, Fence)

----------------------------------------------------------------------------
(* Inputs.                                                                 *)

Alphabet == {"=", ">", "#", "*", TICK, SP, "a", EACUTE}

\* Every line of at most MaxLineLen chars over Alphabet: the one-line inputs.
RichLines == UNION {[1..n -> Alphabet] : n \in 0..MaxLineLen}

\* The lines of the inputs of several lines: a fence, a fence with text
\* after it, an empty and a blank line, one line of every other prefix (the link with a
\* tab), and a heading shorter than the heading window.
SmallLines ==
    { Fence,
      <<TICK, TICK, TICK, SP, "a">>,
      <<>>,
      <<SP>>,
      <<"*", SP, "a">>,
      <<">", "a">>,
      <<"=", ">", "a", TAB, "a">>,
      <<"#">> }

\* At most MaxLines lines of SmallLines.
SmallTexts == UNION {[1..n -> SmallLines] : n \in 0..MaxLines}

RECURSIVE Join(_)
\* ls joined by "\n".
Join(ls) ==
    IF ls = <<>> THEN <<>>
    ELSE IF Len(ls) = 1 THEN ls[1]
    ELSE ls[1] \o <<NL>> \o Join(Tail(ls))

\* The texts parse is run on: one line, or several lines with or without a
\* final "\n".
Inputs ==
    RichLines
        \cup {Join(ls) : ls \in SmallTexts}
        \cup {Join(ls) \o <<NL>> : ls \in SmallTexts}

----------------------------------------------------------------------------
(* parse                                                                   *)

Init ==
    /\ text \in Inputs
    /\ raw_lines = Lines(text)
    /\ line = <<>>
    /\ lines = <<>>
    /\ alt = None
    /\ content = <<>>
    /\ pc = "loop"

\* One iteration of the outer loop that pushes the record r.
Push(r) ==
    /\ line' = Head(raw_lines)
    /\ raw_lines' = Tail(raw_lines)
    /\ lines' = Append(lines, r)
    /\ UNCHANGED <<text, alt, content, pc>>

\* The outer loop has a next line.
AtLine == pc = "loop" /\ raw_lines # <<>>

LinkStep == AtLine /\ IsLink(Head(raw_lines)) /\ Push(LinkOf(Head(raw_lines)))

HeadingStep ==
    /\ AtLine
    /\ IsHeading(Head(raw_lines))
    /\ ~HeadingFaults(Head(raw_lines))
    /\ Push(HeadingOf(Head(raw_lines)))

\* The slice of the heading branch panics; parse unwinds.
HeadingPanic ==
    /\ AtLine
    /\ IsHeading(Head(raw_lines))
    /\ HeadingFaults(Head(raw_lines))
    /\ line' = Head(raw_lines)
    /\ raw_lines' = Tail(raw_lines)
    /\ pc' = "panicked"
    /\ UNCHANGED <<text, lines, alt, content>>

ListItemStep ==
    AtLine /\ IsListItem(Head(raw_lines)) /\ Push(ListItemOf(Head(raw_lines)))

QuoteStep == AtLine /\ IsQuote(Head(raw_lines)) /\ Push(QuoteOf(Head(raw_lines)))

\* TextStep that gives a blank line no record.
TextStepSkipsBlank ==
    /\ AtLine
    /\ IsText(Head(raw_lines))
    /\ line' = Head(raw_lines)
    /\ raw_lines' = Tail(raw_lines)
    /\ lines' = IF Trim(Head(raw_lines)) = <<>>
                THEN lines
                ELSE Append(lines, TextOf(Head(raw_lines)))
    /\ UNCHANGED <<text, alt, content, pc>>

TextStep == AtLine /\ IsText(Head(raw_lines)) /\ Push(TextOf(Head(raw_lines)))

\* The opening fence: alt is computed, content starts empty, the inner loop
\* is entered.
PreOpen ==
    /\ AtLine
    /\ IsPre(Head(raw_lines))
    /\ line' = Head(raw_lines)
    /\ raw_lines' = Tail(raw_lines)
    /\ alt' = AltOf(Head(raw_lines))
    /\ content' = <<>>
    /\ pc' = "pre"
    /\ UNCHANGED <<text, lines>>

\* PreBody that ends every appended line with "\n".
PreBodyWithNewline ==
    /\ pc = "pre"
    /\ raw_lines # <<>>
    /\ ~ClosesPre(Head(raw_lines))
    /\ content' = content \o Head(raw_lines) \o <<NL>>
    /\ raw_lines' = Tail(raw_lines)
    /\ UNCHANGED <<text, line, lines, alt, pc>>

\* The inner loop appends a line.
PreBody ==
    /\ pc = "pre"
    /\ raw_lines # <<>>
    /\ ~ClosesPre(Head(raw_lines))
    /\ content' = content \o Head(raw_lines)
    /\ raw_lines' = Tail(raw_lines)
    /\ UNCHANGED <<text, line, lines, alt, pc>>

\* The inner loop ends, at a fence (which it takes) or at the end of the
\* input; the record is pushed.
PreEnds(rest) ==
    /\ lines' = Append(lines, Pre(alt, content))
    /\ raw_lines' = rest
    /\ alt' = None
    /\ content' = <<>>
    /\ pc' = "loop"
    /\ UNCHANGED <<text, line>>

\* PreClose that leaves the closing fence to the outer loop.
PreCloseKeepsFence ==
    /\ pc = "pre"
    /\ raw_lines # <<>>
    /\ ClosesPre(Head(raw_lines))
    /\ PreEnds(raw_lines)

PreClose ==
    /\ pc = "pre"
    /\ raw_lines # <<>>
    /\ ClosesPre(Head(raw_lines))
    /\ PreEnds(Tail(raw_lines))

\* PreExhausted that drops a block the input leaves open.
PreExhaustedDropsBlock ==
    /\ pc = "pre"
    /\ raw_lines = <<>>
    /\ alt' = None
    /\ content' = <<>>
    /\ pc' = "loop"
    /\ UNCHANGED <<text, raw_lines, line, lines>>

PreExhausted == pc = "pre" /\ raw_lines = <<>> /\ PreEnds(<<>>)

\* The outer loop ends; Page { lines } is returned.
Return ==
    /\ pc = "loop"
    /\ raw_lines = <<>>
    /\ pc' = "done"
    /\ UNCHANGED <<text, raw_lines, line, lines, alt, content>>

Next ==
    \/ LinkStep
    \/ HeadingStep
    \/ HeadingPanic
    \/ ListItemStep
    \/ QuoteStep
    \/ TextStep
    \/ PreOpen
    \/ PreBody
    \/ PreClose
    \/ PreExhausted
    \/ Return

Spec == Init /\ [][Next]_vars

----------------------------------------------------------------------------
(* The input as the claims see it: its physical lines, and the blocks the  *)
(* fence lines cut it into, read off the text alone.                       *)

\* The physical lines of the input.
Phys == Lines(text)

\* How many physical lines the iterator has yielded.
Pos == Len(Phys) - Len(raw_lines)

IsFenceLine(l) == Len(l) >= 3 /\ l[1] = TICK /\ l[2] = TICK /\ l[3] = TICK

\* The fence lines among the first k physical lines.
FencesUpTo(k) == {j \in 1..k : IsFenceLine(Phys[j])}

Odd(n) == n % 2 = 1

\* Fence lines alternate: the odd ones open a block, the even ones close one.
Opens(j) == IsFenceLine(Phys[j]) /\ ~Odd(Cardinality(FencesUpTo(j - 1)))

\* The physical line j is outside every block (an opening fence is).
Outside(j) == ~Odd(Cardinality(FencesUpTo(j - 1)))

\* The last physical line of the block opened at o: its closing fence, or
\* the last line of the input.
BlockEnd(o) ==
    IF \E j \in (o + 1)..Len(Phys) : IsFenceLine(Phys[j])
    THEN CHOOSE j \in (o + 1)..Len(Phys) :
             IsFenceLine(Phys[j]) /\ \A k \in (o + 1)..(j - 1) : ~IsFenceLine(Phys[k])
    ELSE Len(Phys)

\* The physical lines the block opened at o takes.
BlockLen(o) == BlockEnd(o) - o + 1

RECURSIVE Saved(_)
\* The sum, over the blocks opened at or after line j, of BlockLen - 1.
Saved(j) ==
    IF j > Len(Phys) THEN 0
    ELSE IF IsFenceLine(Phys[j])
         THEN (BlockLen(j) - 1) + Saved(BlockEnd(j) + 1)
         ELSE Saved(j + 1)

RECURSIVE Concat(_)
\* The lines of ls one after the other, nothing between them.
Concat(ls) == IF ls = <<>> THEN <<>> ELSE Head(ls) \o Concat(Tail(ls))

\* s without its first n chars.
Drop(s, n) == SubSeq(s, n + 1, Len(s))

HasWhitespace(s) == \E i \in 1..Len(s) : IsWhitespace(s[i])

\* s has no leading and no trailing whitespace.
Trimmed(s) == s = <<>> \/ (~IsWhitespace(s[1]) /\ ~IsWhitespace(s[Len(s)]))

\* The fence that opened the block the inner loop is in.
Opener == CHOOSE o \in FencesUpTo(Pos) : \A j \in FencesUpTo(Pos) : j <= o

\* The Pre record of the block opened at o whose body ends before line e.
PreOfBlock(o, e) ==
    LET t == Trim(Drop(Phys[o], 3))
    IN  Pre(IF t = <<>> THEN None ELSE Some(t), Concat(SubSeq(Phys, o + 1, e - 1)))

----------------------------------------------------------------------------
(* C1: parse never faults, whatever the input.                             *)
C1_Total == pc # "panicked"

(* C2: when parse returns, the records are at most as many as the physical *)
(* lines, exactly the physical lines less (length - 1) of every block, and *)
(* as many as the physical lines when no block is longer than one line.    *)
C2_LineCount ==
    pc = "done" =>
        /\ Len(lines) <= Len(Phys)
        /\ Len(lines) = Len(Phys) - Saved(1)
        /\ (\A o \in 1..Len(Phys) : Opens(o) => BlockLen(o) = 1)
               => Len(lines) = Len(Phys)

C2_Witness ==
    /\ pc = "done"
    /\ Len(lines) = 2
    /\ Len(Phys) = 4
    /\ \E o \in 1..2 : Opens(o) /\ BlockLen(o) = 3

\* The Link the claim describes for a line starting with "=>".
LinkClaimed(l) ==
    LET r == TrimStart(Drop(l, 2))
    IN  IF HasWhitespace(r)
        THEN LET i == CHOOSE i \in 1..Len(r) :
                          IsWhitespace(r[i]) /\ ~HasWhitespace(SubSeq(r, 1, i - 1))
             IN  Link(SubSeq(r, 1, i - 1), Some(Trim(Drop(r, i))))
        ELSE Link(r, None)

(* C3: a line starting with "=>" that the outer loop takes gives the Link  *)
(* of the claim: url up to the first whitespace of the remainder, name the *)
(* trimmed rest (Some("") when it trims to nothing), or url the remainder  *)
(* and no name when the remainder has no whitespace.                       *)
C3_Link ==
    [][(AtLine /\ StartsWith(Head(raw_lines), LinkMark))
          => lines' = Append(lines, LinkClaimed(Head(raw_lines)))]_vars

C3_Witness ==
    /\ pc = "done"
    /\ lines = <<Link(<<"a">>, Some(<<>>))>>

(* C4: a line of at least 3 chars starting with '#' that the outer loop    *)
(* takes gives a Heading whose level is the number of '#' among its first  *)
(* 3 chars and whose content is the line less its first level chars,       *)
(* trimmed.                                                                *)
C4_Heading ==
    [][(AtLine /\ StartsWith(Head(raw_lines), HeadingMark) /\ Len(Head(raw_lines)) >= 3)
          => LET l == Head(raw_lines)
                 level == Cardinality({i \in 1..3 : l[i] = "#"})
             IN  lines' = Append(lines, Heading(level, Trim(Drop(l, level))))]_vars

\* The same on the lines whose first 3 chars are one byte each: there the
\* heading branch does what C4 says, so C4 fails on multi-byte chars only.
C4_HeadingOneByte ==
    [][(/\ AtLine
        /\ StartsWith(Head(raw_lines), HeadingMark)
        /\ Len(Head(raw_lines)) >= 3
        /\ \A i \in 1..3 : Utf8Len(Head(raw_lines)[i]) = 1)
          => LET l == Head(raw_lines)
                 level == Cardinality({i \in 1..3 : l[i] = "#"})
             IN  lines' = Append(lines, Heading(level, Trim(Drop(l, level))))]_vars

(* C5: at a closing fence the Pre record of the block is pushed: alt from  *)
(* the text after the opening backticks (None when it trims to nothing),   *)
(* content the lines strictly between the fences, untrimmed and with       *)
(* nothing between them; the closing line is taken and leaves no trace.    *)
C5_ClosedBlock ==
    [][(pc = "pre" /\ raw_lines # <<>> /\ IsFenceLine(Head(raw_lines)))
          => /\ lines' = Append(lines, PreOfBlock(Opener, Pos + 1))
             /\ raw_lines' = Tail(raw_lines)
             /\ content' = <<>>
             /\ alt' = None]_vars

C5_Witness ==
    /\ pc = "done"
    /\ Len(Phys) = 4
    /\ IsFenceLine(Phys[4])
    /\ lines = <<Pre(Some(<<"a">>), <<SP, "*", SP, "a">>)>>

(* C6: a block left open at the end of the input faults nowhere and ends   *)
(* the Page: once the input is exhausted inside the block its Pre record   *)
(* is pushed, holding every line after the opening fence, and parse        *)
(* returns with it last and with no record for any of those lines.         *)
C6_OpenBlock ==
    /\ [][(pc = "pre" /\ raw_lines = <<>>)
             => /\ lines' = Append(lines, PreOfBlock(Opener, Len(Phys) + 1))
                /\ pc' = "loop"
                /\ raw_lines' = <<>>]_vars
    /\ [][pc = "pre" => pc' \in {"pre", "loop"}]_vars
    /\ [](pc = "done" /\ Odd(Cardinality(FencesUpTo(Len(Phys))))
             => LET o == CHOOSE o \in FencesUpTo(Len(Phys)) :
                              \A j \in FencesUpTo(Len(Phys)) : j <= o
                IN  /\ lines # <<>>
                    /\ lines[Len(lines)] = PreOfBlock(o, Len(Phys) + 1)
                    /\ Len(lines) = Cardinality({j \in 1..o : Outside(j)}))

C6_Witness ==
    /\ pc = "done"
    /\ Len(Phys) = 4
    /\ lines = <<Text(<<>>), Pre(None, <<"#", ">", "a">>)>>

\* The prefix tests that are true of l.
Matches(l) ==
    {k \in {"Link", "Heading", "ListItem", "Quote", "Pre"} :
        \/ k = "Link" /\ StartsWith(l, LinkMark)
        \/ k = "Heading" /\ StartsWith(l, HeadingMark)
        \/ k = "ListItem" /\ StartsWith(l, ListMark)
        \/ k = "Quote" /\ StartsWith(l, QuoteMark)
        \/ k = "Pre" /\ StartsWith(l, Fence)}

\* The variant of a line: that of the test true of it, Text when none is.
KindClaimed(l) == IF Matches(l) = {} THEN "Text" ELSE CHOOSE k \in Matches(l) : TRUE

(* C7: at most one prefix test is true of a line the outer loop takes, and *)
(* the record that line gives has the variant of that test, Text (the line *)
(* trimmed) when none is; a Pre record comes from a fence line only.       *)
C7_OneRule ==
    [][AtLine =>
         LET l == Head(raw_lines) IN
         /\ Cardinality(Matches(l)) <= 1
         /\ (pc' = "pre") <=> (KindClaimed(l) = "Pre")
         /\ pc' = "pre" => lines' = lines
         /\ pc' = "loop" =>
                /\ Len(lines') = Len(lines) + 1
                /\ SubSeq(lines', 1, Len(lines)) = lines
                /\ lines'[Len(lines')].kind = KindClaimed(l)
                /\ KindClaimed(l) = "Text" => lines'[Len(lines')] = Text(Trim(l))]_vars
    /\ [][(pc = "pre" /\ lines' # lines)
            => /\ KindClaimed(line) = "Pre"
               /\ lines'[Len(lines')].kind = "Pre"]_vars

C7_Witness ==
    /\ pc = "done"
    /\ \E i \in 1..Len(lines) : lines[i] = Text(<<"*", "=", ">">>)

\* The strings of a record that the claim calls trimmed.
TrimmedFields(r) ==
    CASE r.kind = "Text" -> Trimmed(r.text)
      [] r.kind = "ListItem" -> Trimmed(r.text)
      [] r.kind = "Quote" -> Trimmed(r.text)
      [] r.kind = "Heading" -> Trimmed(r.content)
      [] r.kind = "Link" -> Trimmed(r.url) /\ (r.name # None => Trimmed(r.name[1]))
      [] r.kind = "Pre" -> TRUE

RECURSIVE OutsideUpTo(_)
OutsideUpTo(k) ==
    IF k = 0 THEN <<>>
    ELSE IF Outside(k) THEN Append(OutsideUpTo(k - 1), k) ELSE OutsideUpTo(k - 1)

(* C9: the records are, in order, those of the physical lines outside      *)
(* blocks the iterator has yielded, one each: a "* " line its own          *)
(* ListItem, a ">" line its own Quote, a blank line its own Text("").      *)
C9_OneToOne ==
    LET out == OutsideUpTo(Pos)
        pending == IF pc \in {"pre", "panicked"} THEN 1 ELSE 0
    IN  /\ Len(lines) = Len(out) - pending
        /\ \A i \in 1..Len(lines) :
               LET l == Phys[out[i]] IN
               /\ StartsWith(l, ListMark) => lines[i] = ListItem(Trim(Drop(l, 2)))
               /\ StartsWith(l, QuoteMark) => lines[i] = Quote(Trim(Drop(l, 1)))
               /\ Trim(l) = <<>> => lines[i] = Text(<<>>)
               /\ lines[i].kind = "Pre" <=> IsFenceLine(l)

C9_Witness ==
    /\ pc = "done"
    /\ Len(lines) = 4
    /\ lines[1].kind = "ListItem" /\ lines[2].kind = "ListItem"
    /\ lines[3] = Text(<<>>) /\ lines[4] = Text(<<>>)

(* C10: the loop is inside a block exactly between an opening fence and    *)
(* the next fence line: there a line that is no fence gives no record and  *)
(* is only appended to content, a fence line ends the block, pushes its    *)
(* Pre and opens nothing, and the line after it is classified again; a     *)
(* block is entered at a fence line only.                                  *)
C10_Modes ==
    /\ [](/\ pc = "pre" => Odd(Cardinality(FencesUpTo(Pos)))
          /\ (Odd(Cardinality(FencesUpTo(Pos))) /\ raw_lines # <<>>) => pc = "pre")
    /\ [][(pc = "pre" /\ raw_lines # <<>> /\ ~IsFenceLine(Head(raw_lines)))
             => /\ lines' = lines
                /\ content' = content \o Head(raw_lines)
                /\ pc' = "pre"]_vars
    /\ [][(pc = "pre" /\ raw_lines # <<>> /\ IsFenceLine(Head(raw_lines)))
             => /\ pc' = "loop"
                /\ Len(lines') = Len(lines) + 1
                /\ lines'[Len(lines')].kind = "Pre"
                /\ raw_lines' = Tail(raw_lines)]_vars
    /\ [][(pc = "loop" /\ pc' = "pre") => IsFenceLine(Head(raw_lines))]_vars

C10_Witness ==
    /\ pc = "done"
    /\ Len(lines) = 2
    /\ lines[1] = Pre(None, <<"=", ">", "a", TAB, "a">>)
    /\ lines[2].kind = "Pre"

====
